---- MODULE Spec2Model ----
(***************************************************************************)
(* Model of script/main.js: the directory crawl (crawlDirectory), the      *)
(* persisted-order merge (applySavedOrder / saveOrder), the playlist        *)
(* (tracks, currentIndex, isStopped) and the playback handlers.             *)
(*                                                                         *)
(* JavaScript is single-threaded: a handler runs to completion, and an     *)
(* async function is suspended only at an await of a network fetch.  Each  *)
(* action below is one such uninterrupted run.                              *)
(***************************************************************************)
EXTENDS Integers, Sequences, FiniteSets, TLC

VARIABLES
    tracks,        \* let tracks: array of {path, title} (or undefined holes)
    currentIndex,  \* let currentIndex
    isStopped,     \* let isStopped
    storage,       \* localStorage[ORDER_STORAGE_KEY]
    src,           \* playerElement.src: <<>> (never set) or <<path>>
    rows,          \* number of .track rows in playlistElement
    status,        \* statusElement.textContent (which message)
    server,        \* the listings the web server currently serves
    crawls,        \* the loadTracks() calls in flight, each suspended at a fetch
    lastOp         \* history: the handler that ran last, and its arguments

vars == <<tracks, currentIndex, isStopped, storage, src, rows, status, server, crawls, lastOp>>

---------------------------------------------------------------------------
(* Bounds of the model *)

\* loadTracks() calls that may be in flight at once (the refresh button is
\* never disabled, so the program itself sets no limit)
MaxCrawls == 1

\* length up to which a drop with a stale source index may grow the playlist
MaxTracks == 3

\* fetches one crawl may issue before the model stops following it
MaxFetches == 6

\* longest array of found paths, and longest stored order, that MergeSpec
\* feeds to the continuation of loadTracks
MaxFound == 3
MaxOrder == 3

---------------------------------------------------------------------------
(* URLs and paths.  A URL is [origin, dirs, file, search]: dirs is the     *)
(* sequence of directory segments of the pathname, file is <<>> when the   *)
(* pathname ends with "/" and <<name, extension>> otherwise.               *)

Url(o, d, f, s) == [origin |-> o, dirs |-> d, file |-> f, search |-> s]

\* window.location: the page lives in directory /app/ of origin "self"
LocationOrigin == "self"
LocationDirs == <<"app">>

\* const AUDIO_ROOT = "audio/"
AUDIO_ROOT == [dirs |-> <<"audio">>, file |-> <<>>, search |-> ""]

\* const AUDIO_EXTENSIONS (lower case)
AUDIO_EXTENSIONS == {"mp3", "wav", "ogg", "m4a", "aac", "flac", "webm"}

\* String.prototype.toLowerCase on the extensions the listings use
toLowerCase(ext) ==
    CASE ext = "MP3" -> "mp3"
      [] ext = "OGG" -> "ogg"
      [] OTHER -> ext

\* new URL(relativePath, window.location.href) for a root-relative path
ResolveRelative(rel) ==
    Url(LocationOrigin, LocationDirs \o rel.dirs, rel.file, rel.search)

\* const audioRootUrl = new URL(AUDIO_ROOT, window.location.href)
audioRootUrl == ResolveRelative(AUDIO_ROOT)

IsPrefix(p, s) == Len(p) <= Len(s) /\ SubSeq(s, 1, Len(p)) = p

\* normalizeAudioPath without the test of lines 33-35
PathnameStartsWithRootSkipped(url) == TRUE

\* url.pathname.startsWith(audioRootUrl.pathname): the root pathname ends
\* with "/", so the test is a test on whole directory segments
PathnameStartsWithRoot(url) == IsPrefix(audioRootUrl.dirs, url.dirs)

\* normalizeAudioPath(href, base), on the URL that new URL(href, base)
\* resolved to: <<>> is null, <<rel>> the root-relative path
normalizeAudioPath(url) ==
    IF url.origin # LocationOrigin THEN <<>>
    ELSE IF ~PathnameStartsWithRoot(url) THEN <<>>
    ELSE LET cut == Len(audioRootUrl.dirs) - Len(AUDIO_ROOT.dirs)
         IN  <<[dirs |-> SubSeq(url.dirs, cut + 1, Len(url.dirs)),
                file |-> url.file, search |-> url.search]>>

\* normalized.endsWith("/"): the string is pathname + search, and no search
\* string of the listings ends with "/"
EndsWithSlash(rel) == rel.file = <<>> /\ rel.search = ""

\* isAudioPath(path): the string is pathname + search, and no search string
\* of the listings ends with an audio extension
isAudioPath(rel) ==
    /\ rel.search = ""
    /\ rel.file # <<>>
    /\ toLowerCase(rel.file[2]) \in AUDIO_EXTENSIONS

\* canonicalKey = `${dirUrl.pathname}${dirUrl.search}`
canonicalKey(rel) ==
    LET dirUrl == ResolveRelative(rel)
    IN  [dirs |-> dirUrl.dirs, file |-> dirUrl.file, search |-> dirUrl.search]

\* prettifyName(path): the file name without its last extension
prettifyName(rel) == IF rel.file = <<>> THEN "" ELSE rel.file[1]

---------------------------------------------------------------------------
(* The web server: what each directory listing links to.  A link is        *)
(* [lead, url]: lead tells how the href attribute starts ("empty", "query" *)
(* for "?...", "fragment" for "#...", "other"), url is the URL the href    *)
(* resolves to against the listing's own URL.                               *)

Link(url) == [lead |-> "other", url |-> url]
Here(d, f) == Url(LocationOrigin, d, f, "")

RootDirs == <<"app", "audio">>
SubDirs == <<"app", "audio", "a">>

FileX == [dirs |-> <<"audio">>, file |-> <<"x", "mp3">>, search |-> ""]
FileW == [dirs |-> <<"audio">>, file |-> <<"w", "ogg">>, search |-> ""]
FileY == [dirs |-> <<"audio", "a">>, file |-> <<"y", "MP3">>, search |-> ""]
FileZ == [dirs |-> <<"audio">>, file |-> <<"z", "mp3">>, search |-> ""]

RootKey == canonicalKey(AUDIO_ROOT)
SubKey == [dirs |-> SubDirs, file |-> <<>>, search |-> ""]

\* root and a/ link to each other (a cycle), a/ links to itself, x.mp3 is
\* linked from both listings, and the listings carry sort links, a parent
\* link and a file link out of the root, links to a file and to a directory
\* of another origin, and a text file
SiteFull ==
    (RootKey :> << [lead |-> "query", url |-> Url(LocationOrigin, RootDirs, <<>>, "?C=N;O=D")],
                   Link(Here(<<"app">>, <<>>)),
                   Link(Here(RootDirs, <<"x", "mp3">>)),
                   Link(Here(SubDirs, <<>>)),
                   Link(Url("other", RootDirs, <<"evil", "mp3">>, "")),
                   Link(Here(RootDirs, <<"w", "ogg">>)),
                   Link(Here(RootDirs, <<"notes", "txt">>)),
                   Link(Here(<<"app">>, <<"song", "mp3">>)),
                   Link(Url("other", RootDirs \o <<"b">>, <<>>, "")) >>)
    @@
    (SubKey :> << Link(Here(RootDirs, <<>>)),
                  Link(Here(SubDirs, <<>>)),
                  Link(Here(SubDirs, <<"y", "MP3">>)),
                  Link(Here(RootDirs, <<"x", "mp3">>)),
                  [lead |-> "fragment", url |-> Here(SubDirs, <<>>)] >>)

\* two audio files, an empty href and nothing else
SiteSmall ==
    (RootKey :> << Link(Here(RootDirs, <<"x", "mp3">>)),
                   [lead |-> "empty", url |-> Here(RootDirs, <<>>)],
                   Link(Here(RootDirs, <<"w", "ogg">>)) >>)

\* no audio file at all
SiteEmpty ==
    (RootKey :> << Link(Here(RootDirs, <<"notes", "txt">>)),
                   Link(Here(RootDirs, <<>>)) >>)

Sites == {SiteFull, SiteSmall, SiteEmpty}

---------------------------------------------------------------------------
(* crawlDirectory *)

\* lines 68-83: the for loop over the links of one listing; the result is
\* the pair of arrays [nested, found]
RECURSIVE ScanLinks(_, _, _)
ScanLinks(links, nested, found) ==
    IF links = <<>> THEN [nested |-> nested, found |-> found]
    ELSE LET href == Head(links)
             normalized == normalizeAudioPath(href.url)
         IN  IF href.lead \in {"empty", "query", "fragment"}
             THEN ScanLinks(Tail(links), nested, found)
             ELSE IF normalized = <<>>
             THEN ScanLinks(Tail(links), nested, found)
             ELSE IF EndsWithSlash(normalized[1])
             THEN ScanLinks(Tail(links), Append(nested, normalized[1]), found)
             ELSE IF isAudioPath(normalized[1])
             THEN ScanLinks(Tail(links), nested, Append(found, normalized[1]))
             ELSE ScanLinks(Tail(links), nested, found)

\* line 86 without the push: what the nested call returned is dropped
PushAllDropped(found, returned) == found

\* line 86: found.push(...(await crawlDirectory(next, seen)))
PushAll(found, returned) == found \o returned

\* line 44: seen.has(canonicalKey)
SeenHas(seen, key) == key \in seen

\* line 47 left out: the directory is never marked as seen
SeenAddForgotten(seen, key) == seen

\* line 47: seen.add(canonicalKey)
SeenAdd(seen, key) == seen \cup {key}

\* A crawl in flight is suspended at the fetch of line 51.  awaiting is the
\* relativePath of the call that fetches, stack holds the frames of its
\* callers (each inside the for loop of lines 85-87: the nested directories
\* still to visit and the found array so far), seen is the shared Set, and
\* log lists the canonical keys fetched so far, in order.

\* lines 40-51 of the first call, crawlDirectory(): seen is new and empty
StartCrawl ==
    [pc |-> "fetching", awaiting |-> AUDIO_ROOT, stack |-> <<>>,
     seen |-> SeenAdd({}, canonicalKey(AUDIO_ROOT)),
     log |-> <<canonicalKey(AUDIO_ROOT)>>]

\* lines 85-89 and 40-51: run the frame on top of the stack until a call
\* suspends at a fetch or the outermost call returns.  A call on a seen
\* directory returns [] at once (line 45); a frame with no nested directory
\* left returns its found array, which its caller appends to its own.
RECURSIVE Resume(_, _, _)
Resume(stack, seen, log) ==
    LET n == Len(stack)
        top == stack[n]
    IN  IF top.nested = <<>>
        THEN IF n = 1
             THEN [pc |-> "done", result |-> top.found, stack |-> <<>>, seen |-> seen, log |-> log]
             ELSE LET caller == stack[n - 1]
                      merged == [caller EXCEPT !.found = PushAll(@, top.found)]
                  IN  Resume(Append(SubSeq(stack, 1, n - 2), merged), seen, log)
        ELSE LET next == Head(top.nested)
                 key == canonicalKey(next)
                 popped == [stack EXCEPT ![n].nested = Tail(@)]
             IN  IF SeenHas(seen, key)
                 THEN Resume(popped, seen, log)
                 ELSE [pc |-> "fetching", awaiting |-> next, stack |-> popped,
                       seen |-> SeenAdd(seen, key), log |-> Append(log, key)]

\* lines 55-89 after the fetch of crawl c answered with the listing links
AfterFetch(c, links) ==
    Resume(Append(c.stack, ScanLinks(links, <<>>, <<>>)), c.seen, c.log)

---------------------------------------------------------------------------
(* Sorting and the Order Store *)

Range(s) == {s[i] : i \in 1..Len(s)}

\* the text of a path under String.prototype.localeCompare: segment by
\* segment, names in dictionary order, lower case before upper case
SegmentRank(name) ==
    CASE name = "a" -> 1
      [] name = "audio" -> 2
      [] name = "mp3" -> 3
      [] name = "MP3" -> 4
      [] name = "ogg" -> 5
      [] name = "w" -> 6
      [] name = "x" -> 7
      [] name = "y" -> 8
      [] name = "z" -> 9
      [] OTHER -> 10

CollationKey(rel) == [i \in 1..Len(rel.dirs \o rel.file) |-> SegmentRank((rel.dirs \o rel.file)[i])]

RECURSIVE CompareKeys(_, _)
CompareKeys(k1, k2) ==
    IF k1 = <<>> /\ k2 = <<>> THEN 0
    ELSE IF k1 = <<>> THEN -1
    ELSE IF k2 = <<>> THEN 1
    ELSE IF Head(k1) # Head(k2) THEN Head(k1) - Head(k2)
    ELSE CompareKeys(Tail(k1), Tail(k2))

\* a.localeCompare(b)
localeCompare(a, b) == CompareKeys(CollationKey(a), CollationKey(b))

\* Array.prototype.sort(compare), compare given as a function on pairs: a
\* stable insertion sort
RECURSIVE Insert(_, _, _)
Insert(x, sorted, compare) ==
    IF sorted = <<>> THEN <<x>>
    ELSE IF compare[<<x, Head(sorted)>>] < 0 THEN <<x>> \o sorted
    ELSE <<Head(sorted)>> \o Insert(x, Tail(sorted), compare)

RECURSIVE Sort(_, _)
Sort(s, compare) ==
    IF s = <<>> THEN <<>>
    ELSE Insert(s[Len(s)], Sort(SubSeq(s, 1, Len(s) - 1), compare), compare)

\* [...allFound] in place of [...new Set(allFound)]
SetOfKeepsAll(s) == s

\* [...new Set(allFound)]: the first occurrence of each value, in order
RECURSIVE SetOf(_)
SetOf(s) ==
    IF s = <<>> THEN <<>>
    ELSE LET before == SetOf(SubSeq(s, 1, Len(s) - 1))
         IN  IF s[Len(s)] \in Range(before) THEN before ELSE Append(before, s[Len(s)])

\* line 253: [...new Set(allFound)].sort((a, b) => a.localeCompare(b))
uniquePaths(allFound) ==
    Sort(SetOf(allFound), [pr \in Range(allFound) \X Range(allFound) |-> localeCompare(pr[1], pr[2])])

\* localStorage holds nothing under the key ("absent"), text that is not
\* JSON ("badjson"), JSON that is no array ("notarray"), or a JSON array
Absent == [kind |-> "absent", order |-> <<>>]
BadJson == [kind |-> "badjson", order |-> <<>>]
NotArray == [kind |-> "notarray", order |-> <<>>]
Stored(order) == [kind |-> "array", order |-> order]

\* line 93: JSON.parse(localStorage.getItem(ORDER_STORAGE_KEY) ?? "[]")
\* throws a SyntaxError on text that is not JSON
ParseThrows(stored) == stored.kind = "badjson"

\* line 94: savedOrder.map throws a TypeError when savedOrder is no array
MapThrows(stored) == stored.kind = "notarray"

\* line 94: new Map(savedOrder.map((p, index) => [p, index])): a path that
\* occurs twice keeps the index of its last occurrence
Rank(savedOrder, p) ==
    LET at == {i \in 1..Len(savedOrder) : savedOrder[i] = p}
    IN  CHOOSE i \in at : \A j \in at : j <= i

RankHas(savedOrder, p) == p \in Range(savedOrder)

\* a rank below every index for the paths the stored order lacks
NoRankFirst(savedOrder) == 0

\* Number.MAX_SAFE_INTEGER, above every index of the stored order
NoRank(savedOrder) == Len(savedOrder) + 1

\* lines 96-103: the comparator
SavedCompare(savedOrder, a, b) ==
    LET aRank == IF RankHas(savedOrder, a) THEN Rank(savedOrder, a) ELSE NoRank(savedOrder)
        bRank == IF RankHas(savedOrder, b) THEN Rank(savedOrder, b) ELSE NoRank(savedOrder)
    IN  IF aRank # bRank THEN aRank - bRank ELSE localeCompare(a, b)

\* applySavedOrder(paths): [threw, value]
applySavedOrder(paths, stored) ==
    IF ParseThrows(stored) \/ MapThrows(stored)
    THEN [threw |-> TRUE, value |-> <<>>]
    ELSE [threw |-> FALSE,
          value |-> Sort(paths, [pr \in Range(paths) \X Range(paths) |->
                                   SavedCompare(stored.order, pr[1], pr[2])])]

---------------------------------------------------------------------------
(* The playlist *)

\* an element of tracks: a track object, or undefined
Track(path) == [path |-> path, title |-> prettifyName(path)]
Undefined == [undefined |-> TRUE]
IsTrack(t) == "path" \in DOMAIN t

\* tracks.map((track) => track.path), on an array without undefined
PathsOf(trk) == [i \in 1..Len(trk) |-> trk[i].path]

\* a JavaScript number that is an index or NaN
NaN == 99
NumberIsNaN(n) == n = NaN
StrictEquals(a, b) == ~NumberIsNaN(a) /\ ~NumberIsNaN(b) /\ a = b
LessThan(a, b) == ~NumberIsNaN(a) /\ ~NumberIsNaN(b) /\ a < b

\* line 169: the guard of reorderTracks
ReorderIgnores(fromIndex, toIndex) ==
    \/ StrictEquals(fromIndex, toIndex)
    \/ NumberIsNaN(fromIndex)
    \/ NumberIsNaN(toIndex)
    \/ LessThan(fromIndex, 0)
    \/ LessThan(toIndex, 0)

\* array.splice(start, 1) for start >= 0: [removed, rest]
SpliceOut(arr, start) ==
    IF start >= Len(arr) THEN [removed |-> <<>>, rest |-> arr]
    ELSE [removed |-> <<arr[start + 1]>>,
          rest |-> SubSeq(arr, 1, start) \o SubSeq(arr, start + 2, Len(arr))]

\* array.splice(start, 0, item) for start >= 0
SpliceIn(arr, start, item) ==
    LET at == IF start > Len(arr) THEN Len(arr) ELSE start
    IN  SubSeq(arr, 1, at) \o <<item>> \o SubSeq(arr, at + 1, Len(arr))

\* lines 173-174 with the target index corrected for the removal, as if
\* toIndex were an index of the array before the removal
MoveElementShifted(trk, fromIndex, toIndex) ==
    LET out == SpliceOut(trk, fromIndex)
        moved == IF out.removed = <<>> THEN Undefined ELSE out.removed[1]
    IN  SpliceIn(out.rest, IF fromIndex < toIndex THEN toIndex - 1 ELSE toIndex, moved)

\* lines 173-174: const [moved] = tracks.splice(fromIndex, 1);
\*                tracks.splice(toIndex, 0, moved)
MoveElement(trk, fromIndex, toIndex) ==
    LET out == SpliceOut(trk, fromIndex)
        moved == IF out.removed = <<>> THEN Undefined ELSE out.removed[1]
    IN  SpliceIn(out.rest, toIndex, moved)

\* lines 176-182 with toIndex > currentIndex in the second test
MoveIndexStrict(cur, fromIndex, toIndex) ==
    IF cur = fromIndex THEN toIndex
    ELSE IF fromIndex < cur /\ toIndex > cur THEN cur - 1
    ELSE IF fromIndex > cur /\ toIndex <= cur THEN cur + 1
    ELSE cur

\* lines 176-182: the adjustment of currentIndex
MoveIndex(cur, fromIndex, toIndex) ==
    IF cur = fromIndex THEN toIndex
    ELSE IF fromIndex < cur /\ toIndex >= cur THEN cur - 1
    ELSE IF fromIndex > cur /\ toIndex <= cur THEN cur + 1
    ELSE cur

\* renderPlaylist: the rows built before track.title throws on undefined
RECURSIVE RowsBuilt(_)
RowsBuilt(trk) ==
    IF trk = <<>> \/ ~IsTrack(Head(trk)) THEN 0 ELSE 1 + RowsBuilt(Tail(trk))

RenderThrows(trk) == \E i \in 1..Len(trk) : ~IsTrack(trk[i])

\* loadTrack without the assignment of line 125
loadTrackKeepsIndex(trk, cur, source, index, autoplay) ==
    IF Len(trk) = 0 \/ index < 0 \/ index >= Len(trk)
    THEN [currentIndex |-> cur, src |-> source, played |-> FALSE, threw |-> FALSE]
    ELSE IF cur < 0 \/ cur >= Len(trk) \/ ~IsTrack(trk[cur + 1])
    THEN [currentIndex |-> cur, src |-> source, played |-> FALSE, threw |-> TRUE]
    ELSE [currentIndex |-> cur, src |-> <<trk[cur + 1].path>>,
          played |-> autoplay, threw |-> FALSE]

\* loadTrack(index, autoplay) on the playlist trk: the new currentIndex and
\* player source, whether playerElement.play() was called, and whether
\* track.path threw because tracks[index] is undefined
loadTrack(trk, cur, source, index, autoplay) ==
    IF Len(trk) = 0 \/ index < 0 \/ index >= Len(trk)
    THEN [currentIndex |-> cur, src |-> source, played |-> FALSE, threw |-> FALSE]
    ELSE IF ~IsTrack(trk[index + 1])
    THEN [currentIndex |-> index, src |-> source, played |-> FALSE, threw |-> TRUE]
    ELSE [currentIndex |-> index, src |-> <<trk[index + 1].path>>,
          played |-> autoplay, threw |-> FALSE]

\* lines 152-154 without the reset of an invalid index
StartIndexKept(cur, n) == cur

\* lines 152-154: an invalid currentIndex becomes 0
StartIndex(cur, n) == IF cur < 0 \/ cur >= n THEN 0 ELSE cur

\* playFromCurrentOrTop with isStopped = false ahead of the test of line 146
playFromCurrentOrTopEager(trk, cur, stopped, source, shownStatus) ==
    IF Len(trk) = 0
    THEN [currentIndex |-> cur, isStopped |-> FALSE, src |-> source,
          status |-> "no-tracks", played |-> FALSE, threw |-> FALSE]
    ELSE LET start == StartIndex(cur, Len(trk))
             loaded == loadTrack(trk, start, source, start, TRUE)
         IN  [currentIndex |-> loaded.currentIndex, isStopped |-> FALSE, src |-> loaded.src,
              status |-> shownStatus, played |-> loaded.played, threw |-> loaded.threw]

\* playFromCurrentOrTop(): currentIndex, isStopped, the player's src and the
\* status line after the call
playFromCurrentOrTop(trk, cur, stopped, source, shownStatus) ==
    IF Len(trk) = 0
    THEN [currentIndex |-> cur, isStopped |-> stopped, src |-> source,
          status |-> "no-tracks", played |-> FALSE, threw |-> FALSE]
    ELSE LET start == StartIndex(cur, Len(trk))
             loaded == loadTrack(trk, start, source, start, TRUE)
         IN  [currentIndex |-> loaded.currentIndex, isStopped |-> FALSE, src |-> loaded.src,
              status |-> shownStatus, played |-> loaded.played, threw |-> loaded.threw]

\* line 164: the index after cur, never past the end
NextIndexNoWrap(cur, n) == IF cur + 1 >= n THEN cur ELSE cur + 1

\* line 164: (currentIndex + 1) % tracks.length
NextIndex(cur, n) == (cur + 1) % n

\* saveOrder with track.title in place of track.path
saveOrderTitles(trk) == Stored([i \in 1..Len(trk) |-> trk[i].title])

\* saveOrder(): the value written to localStorage
saveOrder(trk) == Stored(PathsOf(trk))

\* reorderTracks(fromIndex, toIndex): the new tracks, currentIndex, rows and
\* stored order; renderPlaylist throws on an undefined element, and then
\* saveOrder (line 185) is never reached
reorderTracks(trk, cur, shown, stored, fromIndex, toIndex) ==
    IF ReorderIgnores(fromIndex, toIndex)
    THEN [tracks |-> trk, currentIndex |-> cur, rows |-> shown, storage |-> stored,
          threw |-> FALSE, saved |-> FALSE]
    ELSE LET newTracks == MoveElement(trk, fromIndex, toIndex)
         IN  [tracks |-> newTracks,
              currentIndex |-> MoveIndex(cur, fromIndex, toIndex),
              rows |-> RowsBuilt(newTracks),
              storage |-> IF RenderThrows(newTracks) THEN stored ELSE saveOrder(newTracks),
              threw |-> RenderThrows(newTracks),
              saved |-> ~RenderThrows(newTracks)]

---------------------------------------------------------------------------
(* The state machine *)

\* lastOp of a handler; the fields a handler does not use keep these values
Op(name) ==
    [op |-> name, from |-> 0, to |-> 0, inRange |-> FALSE, played |-> FALSE,
     threw |-> FALSE, saved |-> FALSE, found |-> <<>>, log |-> <<>>]

\* lastOp of a loadTracks() call that ended: log is what its crawl fetched
RefreshOp(name, log) == [Op(name) EXCEPT !.log = log]

\* what localStorage may hold when the page is opened
InitialStorage == {Absent, BadJson, NotArray, Stored(<<FileZ, FileX>>)}

\* Number(event.dataTransfer.getData("text/plain")): the drag may come from
\* anywhere, or from a row of a playlist that a refresh has since replaced
FromValues == {NaN} \cup (-1 .. MaxTracks)

\* lines 13-15 and 285: the script ends with void loadTracks()
Init ==
    /\ tracks = <<>>
    /\ currentIndex = -1
    /\ isStopped = TRUE
    /\ storage \in InitialStorage
    /\ src = <<>>
    /\ rows = 0
    /\ status = "scanning"
    /\ server \in Sites
    /\ crawls = <<StartCrawl>>
    /\ lastOp = Op("open")

\* lines 270-275: the catch block of loadTracks
LoadTracksCatch(op) ==
    /\ tracks' = <<>>
    /\ currentIndex' = -1
    /\ rows' = RowsBuilt(<<>>)
    /\ status' = "error"
    /\ lastOp' = op
    /\ UNCHANGED <<isStopped, storage, src>>

\* lines 253-269: loadTracks after crawlDirectory() returned allFound
LoadTracksFinish(allFound, op) ==
    LET ordered == applySavedOrder(uniquePaths(allFound), storage)
        newTracks == [i \in 1..Len(ordered.value) |-> Track(ordered.value[i])]
    IN  IF ordered.threw
        THEN LoadTracksCatch([op EXCEPT !.found = allFound, !.threw = TRUE])
        ELSE /\ tracks' = newTracks
             /\ IF Len(newTracks) = 0
                THEN /\ status' = "none-found"
                     /\ rows' = 0
                     /\ currentIndex' = currentIndex
                ELSE /\ currentIndex' = IF currentIndex >= Len(newTracks) THEN -1 ELSE currentIndex
                     /\ rows' = RowsBuilt(newTracks)
                     /\ status' = "loaded"
             /\ lastOp' = [op EXCEPT !.found = allFound]
             /\ UNCHANGED <<isStopped, storage, src>>

\* the calls in flight without the c-th, which has ended
Without(running, c) == SubSeq(running, 1, c - 1) \o SubSeq(running, c + 1, Len(running))

\* the refresh button (lines 280-282): loadTracks up to its first fetch
ClickRefresh ==
    /\ Len(crawls) < MaxCrawls
    /\ crawls' = Append(crawls, StartCrawl)
    /\ status' = "scanning"
    /\ lastOp' = Op("refreshStart")
    /\ UNCHANGED <<tracks, currentIndex, isStopped, storage, src, rows, server>>

\* the server answers the fetch of crawl c with a listing
FetchOk(c) ==
    /\ c \in 1..Len(crawls)
    /\ Len(crawls[c].log) <= MaxFetches
    /\ canonicalKey(crawls[c].awaiting) \in DOMAIN server
    /\ LET next == AfterFetch(crawls[c], server[canonicalKey(crawls[c].awaiting)])
       IN  IF next.pc = "fetching"
           THEN /\ crawls' = [crawls EXCEPT ![c] = next]
                /\ UNCHANGED <<tracks, currentIndex, isStopped, storage, src, rows, status, lastOp>>
           ELSE /\ crawls' = Without(crawls, c)
                /\ LoadTracksFinish(next.result, RefreshOp("refresh", next.log))
    /\ UNCHANGED server

\* the fetch of crawl c fails, or answers with a status that is not ok
\* (lines 52-60): the error leaves every pending crawlDirectory call
FetchFail(c) ==
    /\ c \in 1..Len(crawls)
    /\ crawls' = Without(crawls, c)
    /\ LoadTracksCatch(RefreshOp("refreshFailed", crawls[c].log))
    /\ UNCHANGED server

\* the play button: playFromCurrentOrTop
Play ==
    /\ LET after == playFromCurrentOrTop(tracks, currentIndex, isStopped, src, status)
       IN  /\ currentIndex' = after.currentIndex
           /\ isStopped' = after.isStopped
           /\ src' = after.src
           /\ status' = after.status
           /\ lastOp' = [Op("play") EXCEPT !.played = after.played, !.threw = after.threw]
    /\ UNCHANGED <<tracks, storage, rows, server, crawls>>

\* the stop button: stopPlayback
Stop ==
    /\ isStopped' = TRUE
    /\ lastOp' = Op("stop")
    /\ UNCHANGED <<tracks, currentIndex, storage, src, rows, status, server, crawls>>

\* the Play button of row index (lines 214-217)
SelectRow(index) ==
    /\ index \in 0..(rows - 1)
    /\ LET loaded == loadTrack(tracks, currentIndex, src, index, TRUE)
       IN  /\ isStopped' = FALSE
           /\ currentIndex' = loaded.currentIndex
           /\ src' = loaded.src
           /\ lastOp' = [Op("select") EXCEPT !.to = index, !.played = loaded.played,
                                             !.threw = loaded.threw]
    /\ UNCHANGED <<tracks, storage, rows, status, server, crawls>>

\* the player's ended event: goToNextTrack
TrackEnded ==
    /\ IF Len(tracks) = 0
       THEN /\ lastOp' = Op("ended")
            /\ UNCHANGED <<currentIndex, src>>
       ELSE LET next == NextIndex(currentIndex, Len(tracks))
                loaded == loadTrack(tracks, next, src, next, ~isStopped)
            IN  /\ currentIndex' = loaded.currentIndex
                /\ src' = loaded.src
                /\ lastOp' = [Op("ended") EXCEPT !.played = loaded.played, !.threw = loaded.threw]
    /\ UNCHANGED <<tracks, isStopped, storage, rows, status, server, crawls>>

\* a drop on row toIndex (lines 238-243): reorderTracks(fromIndex, toIndex)
Drop(fromIndex, toIndex) ==
    /\ toIndex \in 0..(rows - 1)
    /\ fromIndex \in FromValues
    /\ (~NumberIsNaN(fromIndex) /\ fromIndex >= Len(tracks)) => Len(tracks) < MaxTracks
    /\ LET moved == reorderTracks(tracks, currentIndex, rows, storage, fromIndex, toIndex)
       IN  /\ tracks' = moved.tracks
           /\ currentIndex' = moved.currentIndex
           /\ rows' = moved.rows
           /\ storage' = moved.storage
           /\ lastOp' = [Op("move") EXCEPT !.from = fromIndex, !.to = toIndex,
                                           !.inRange = LessThan(fromIndex, Len(tracks)),
                                           !.threw = moved.threw, !.saved = moved.saved]
    /\ UNCHANGED <<isStopped, src, status, server, crawls>>

\* the files on the server change; listings are stable while a crawl runs
ServerChange(site) ==
    /\ crawls = <<>>
    /\ site # server
    /\ server' = site
    /\ lastOp' = Op("serverChange")
    /\ UNCHANGED <<tracks, currentIndex, isStopped, storage, src, rows, status, crawls>>

Next ==
    \/ ClickRefresh
    \/ \E c \in 1..MaxCrawls : FetchOk(c)
    \/ \E c \in 1..MaxCrawls : FetchFail(c)
    \/ Play
    \/ Stop
    \/ \E index \in 0..MaxTracks : SelectRow(index)
    \/ TrackEnded
    \/ \E fromIndex \in FromValues, toIndex \in 0..MaxTracks : Drop(fromIndex, toIndex)
    \/ \E site \in Sites : ServerChange(site)

Spec == Init /\ [][Next]_vars

---------------------------------------------------------------------------
(* The continuation of loadTracks on its own: every array of found paths   *)
(* and every stored order, within the bounds                                *)

AudioFiles == {FileX, FileW, FileY}

SeqsUpTo(S, n) == UNION {[1..k -> S] : k \in 0..n}

FoundInputs == SeqsUpTo(AudioFiles, MaxFound)

StorageInputs ==
    {Absent, BadJson, NotArray} \cup {Stored(o) : o \in SeqsUpTo(AudioFiles \cup {FileZ}, MaxOrder)}

MergeInit ==
    /\ tracks = <<>>
    /\ currentIndex = -1
    /\ isStopped = TRUE
    /\ storage \in StorageInputs
    /\ src = <<>>
    /\ rows = 0
    /\ status = "scanning"
    /\ server = SiteFull
    /\ crawls = <<>>
    /\ lastOp = Op("open")

\* crawlDirectory() returned allFound: lines 253-269
MergeLoad(allFound) ==
    /\ lastOp.op = "open"
    /\ LoadTracksFinish(allFound, Op("refresh"))
    /\ UNCHANGED <<server, crawls>>

MergeNext == \E allFound \in FoundInputs : MergeLoad(allFound)

MergeSpec == MergeInit /\ [][MergeNext]_vars

---------------------------------------------------------------------------
(* The ended listener alone: a player that is playing and is left to       *)
(* itself, every track running to its end (line 283).  The playlists are   *)
(* those that loads and moves can produce, the ones a stale drag has put   *)
(* undefined into included.                                                *)

Playlists ==
    {trk \in SeqsUpTo({Track(f) : f \in AudioFiles} \cup {Undefined}, MaxTracks) :
        /\ Len(trk) > 0
        /\ \A i, j \in 1..Len(trk) : (IsTrack(trk[i]) /\ trk[i] = trk[j]) => i = j}

LoopInit ==
    /\ tracks \in Playlists
    /\ currentIndex \in 0..(Len(tracks) - 1)
    /\ isStopped = FALSE
    /\ storage = Absent
    /\ src = (IF IsTrack(tracks[currentIndex + 1]) THEN <<tracks[currentIndex + 1].path>> ELSE <<>>)
    /\ rows = RowsBuilt(tracks)
    /\ status = "loaded"
    /\ server = SiteFull
    /\ crawls = <<>>
    /\ lastOp = Op("play")

LoopNext == TrackEnded

\* a track that plays comes to its end: the ended event is always delivered
LoopSpec == LoopInit /\ [][LoopNext]_vars /\ WF_vars(TrackEnded)

---------------------------------------------------------------------------
(* Properties *)

ValidIndex(i, trk) == 0 <= i /\ i < Len(trk)

Count(s, x) == Cardinality({i \in 1..Len(s) : s[i] = x})

\* C1: in every reachable state, if isStopped is false then currentIndex is
\* a valid index of tracks.
C1_PlayingHasValidIndex == ~isStopped => ValidIndex(currentIndex, tracks)

\* C2: right after a refresh whose crawl failed at a fetch, tracks is empty,
\* currentIndex is -1 and isStopped is true, whatever the state was before.
C2_FailedRefreshResets ==
    lastOp.op = "refreshFailed" => (tracks = <<>> /\ currentIndex = -1 /\ isStopped)

\* C3: right after a refresh whose crawl succeeded while the stored order is
\* malformed, nothing was thrown and tracks holds the discovered paths in the
\* order an absent stored order gives them (lexicographic).
C3_MalformedOrderIsEmptyOrder ==
    (lastOp.op = "refresh" /\ storage.kind \in {"badjson", "notarray"})
        => /\ ~lastOp.threw
           /\ tracks = [i \in 1..Len(uniquePaths(lastOp.found)) |->
                           Track(applySavedOrder(uniquePaths(lastOp.found), Absent).value[i])]

\* the arguments move(from, to) must ignore on a playlist of length n
InvalidMove(fromIndex, toIndex, n) ==
    \/ fromIndex = toIndex
    \/ NumberIsNaN(fromIndex) \/ NumberIsNaN(toIndex)
    \/ fromIndex < 0 \/ toIndex < 0
    \/ fromIndex >= n \/ toIndex >= n

\* C4: a step that is a move with equal, negative, not-a-number or
\* out-of-bounds indices leaves tracks, currentIndex and the stored order
\* unchanged and saves nothing.
C4_InvalidMoveIsNoOp ==
    [][(lastOp'.op = "move" /\ InvalidMove(lastOp'.from, lastOp'.to, Len(tracks)))
          => (tracks' = tracks /\ currentIndex' = currentIndex /\ storage' = storage
              /\ ~lastOp'.saved)]_vars

\* C5: right after a refresh that completed without a crawl error,
\* currentIndex is -1 or a valid index of the new tracks.
C5_RefreshLeavesValidIndex ==
    lastOp.op = "refresh" => (currentIndex = -1 \/ ValidIndex(currentIndex, tracks))

NoRepeat(s) == \A i, j \in 1..Len(s) : s[i] = s[j] => i = j

\* C6: a crawl fetches each canonical directory at most once, so the number
\* of its fetches never exceeds the number of directories the server has;
\* every step of a crawl issues a fetch or ends it, so the crawl ends.
C6_EachDirectoryFetchedOnce ==
    /\ \A c \in 1..Len(crawls) :
          /\ NoRepeat(crawls[c].log)
          /\ Range(crawls[c].log) \subseteq crawls[c].seen
          /\ Len(crawls[c].log) <= Cardinality(DOMAIN server)
          /\ canonicalKey(crawls[c].awaiting) = crawls[c].log[Len(crawls[c].log)]
    /\ lastOp.op \in {"refresh", "refreshFailed"} =>
          /\ NoRepeat(lastOp.log)
          /\ Len(lastOp.log) <= Cardinality(DOMAIN server)

\* a crawl of the listings with the cycle root -> a/ -> root and the
\* self-link of a/ has ended after fetching both directories
C6_Witness ==
    /\ lastOp.op = "refresh"
    /\ lastOp.log = <<RootKey, SubKey>>
    /\ server = SiteFull

\* what the listings of the server say: the target of a link that is not
\* skipped, the directories linked from a listing, the directories
\* reachable from the root, and the places (directory, position in its
\* listing) that link to the audio file p
LinkTarget(href) == IF href.lead = "other" THEN normalizeAudioPath(href.url) ELSE <<>>

DirsLinkedFrom(key) ==
    {canonicalKey(LinkTarget(server[key][i])[1]) :
        i \in {j \in 1..Len(server[key]) :
                 /\ LinkTarget(server[key][j]) # <<>>
                 /\ EndsWithSlash(LinkTarget(server[key][j])[1])}}

RECURSIVE ReachableFrom(_)
ReachableFrom(keys) ==
    LET more == keys \cup UNION {DirsLinkedFrom(k) : k \in keys \cap DOMAIN server}
    IN  IF more = keys THEN keys ELSE ReachableFrom(more)

ReachableDirs == ReachableFrom({RootKey}) \cap DOMAIN server

LinkPlaces(p) ==
    UNION {{<<k, i>> : i \in {j \in 1..Len(server[k]) : LinkTarget(server[k][j]) = <<p>>}} :
             k \in ReachableDirs}

LinkedAudio ==
    UNION {{LinkTarget(server[k][i])[1] :
              i \in {j \in 1..Len(server[k]) :
                       /\ LinkTarget(server[k][j]) # <<>>
                       /\ isAudioPath(LinkTarget(server[k][j])[1])}} : k \in ReachableDirs}

\* C7 as stated: the array crawlDirectory() returned holds every audio file
\* linked from a reachable directory, nothing else, and no path twice.
C7_EachFileExactlyOnce ==
    lastOp.op = "refresh" =>
        /\ Range(lastOp.found) = LinkedAudio
        /\ \A p \in LinkedAudio : Count(lastOp.found, p) = 1

\* C7 as amended: the array crawlDirectory() returned holds every audio
\* file linked from a reachable directory and nothing else, each once per
\* link to it in the listings of the reachable directories; the array
\* uniquePaths that loadTracks builds from it holds each exactly once.
C7_EachFileOncePerLink ==
    lastOp.op = "refresh" =>
        /\ Range(lastOp.found) = LinkedAudio
        /\ \A p \in LinkedAudio :
              /\ Count(lastOp.found, p) = Cardinality(LinkPlaces(p))
              /\ Count(uniquePaths(lastOp.found), p) = 1
        /\ Len(uniquePaths(lastOp.found)) = Cardinality(LinkedAudio)

\* the crawl of the cyclic listings returned x.mp3, linked from the root
\* and from a/, twice, and the file of a/ once
C7_Witness ==
    /\ lastOp.op = "refresh"
    /\ Count(lastOp.found, FileX) = 2
    /\ Count(lastOp.found, FileY) = 1

\* C8: tracks never holds two tracks with the same path (an undefined
\* element, which a move with a stale source index can insert, is no track
\* and has no path).
C8_NoDuplicatePaths ==
    \A i, j \in 1..Len(tracks) :
        (IsTrack(tracks[i]) /\ IsTrack(tracks[j]) /\ tracks[i].path = tracks[j].path) => i = j

\* three tracks, one of them found through two links, after a saved move
C8_Witness ==
    /\ lastOp.op = "move"
    /\ lastOp.saved
    /\ Len(tracks) = 3
    /\ \E i \in 1..3 : tracks[i] = Track(FileX)

\* the place of p in the stored order P that its rank comes from
PlaceIn(P, p) == CHOOSE i \in 1..Len(P) : P[i] = p /\ \A j \in (i + 1)..Len(P) : P[j] # p

\* out orders exactly the set D: the paths of D stored in P first, in the
\* order of P, then the others in lexicographic order
IsMergeOf(out, D, P) ==
    /\ Range(out) = D
    /\ Len(out) = Cardinality(D)
    /\ \A i, j \in 1..Len(out) :
          i < j =>
             \/ /\ out[i] \in Range(P)
                /\ out[j] \in Range(P)
                /\ PlaceIn(P, out[i]) < PlaceIn(P, out[j])
             \/ /\ out[i] \in Range(P)
                /\ out[j] \notin Range(P)
             \/ /\ out[i] \notin Range(P)
                /\ out[j] \notin Range(P)
                /\ localeCompare(out[i], out[j]) < 0

\* C9: for every discovered set D and stored order P, the playlist built
\* from them is a duplicate-free ordering of exactly D: the paths of D that
\* occur in P first, in their order in P (a path stored twice counts at its
\* last place), then the paths of D absent from P in lexicographic order.
C9_MergeOrder ==
    (lastOp.op = "refresh" /\ storage.kind \in {"absent", "array"}) =>
        /\ ~lastOp.threw
        /\ IsMergeOf(PathsOf(tracks), Range(lastOp.found), storage.order)

\* mergeOrder({w, x, y}, [z, x]) = [x, y, w]: the stale z is dropped, the
\* stored x comes first, the new a/y.MP3 and w.ogg follow in lexicographic order
C9_Witness ==
    /\ lastOp.op = "refresh"
    /\ storage = Stored(<<FileZ, FileX>>)
    /\ Range(lastOp.found) = {FileW, FileX, FileY}
    /\ tracks = <<Track(FileX), Track(FileY), Track(FileW)>>

\* a move the playlist of length n must carry out
ValidMove(fromIndex, toIndex, n) ==
    /\ ~NumberIsNaN(fromIndex) /\ ~NumberIsNaN(toIndex)
    /\ fromIndex # toIndex
    /\ ValidIndex(fromIndex, [i \in 1..n |-> i])
    /\ ValidIndex(toIndex, [i \in 1..n |-> i])

\* C10: a step that is a valid move keeps currentIndex on the element it was
\* on, when currentIndex was a valid index, and keeps it -1 when it was -1.
C10_MoveKeepsCurrentTrack ==
    [][(lastOp'.op = "move" /\ ValidMove(lastOp'.from, lastOp'.to, Len(tracks)))
          => /\ ValidIndex(currentIndex, tracks) =>
                   /\ ValidIndex(currentIndex', tracks')
                   /\ tracks'[currentIndex' + 1] = tracks[currentIndex + 1]
             /\ currentIndex = -1 => currentIndex' = -1]_vars

\* [A,B,C] with currentIndex 2 after move(0, 2): currentIndex is 1, and the
\* playing track is the one now in the middle
C10_Witness ==
    /\ lastOp.op = "move"
    /\ lastOp.from = 0
    /\ lastOp.to = 2
    /\ lastOp.saved
    /\ Len(tracks) = 3
    /\ currentIndex = 1
    /\ ~isStopped
    /\ src = <<tracks[2].path>>

\* a step of the drop handler: the only steps that leave lastOp a move and
\* the crawls in flight as they are
MoveStep == lastOp'.op = "move" /\ crawls' = crawls

\* arr without its k-th element (k counted from 1)
RemoveAt(arr, k) == SubSeq(arr, 1, k - 1) \o SubSeq(arr, k + 1, Len(arr))

\* C11: a step that is a valid move(from, to) keeps the length of the
\* playlist, puts the element that was at from at index to, and leaves the
\* other elements in their order.
C11_MoveRelocatesOneTrack ==
    [][(MoveStep /\ ValidMove(lastOp'.from, lastOp'.to, Len(tracks)))
          => /\ Len(tracks') = Len(tracks)
             /\ tracks'[lastOp'.to + 1] = tracks[lastOp'.from + 1]
             /\ RemoveAt(tracks', lastOp'.to + 1) = RemoveAt(tracks, lastOp'.from + 1)]_vars

\* [a/y.MP3, w.ogg, x.mp3] after move(0, 2): [w.ogg, x.mp3, a/y.MP3]
C11_Witness ==
    /\ lastOp.op = "move"
    /\ lastOp.from = 0
    /\ lastOp.to = 2
    /\ tracks = <<Track(FileW), Track(FileX), Track(FileY)>>
    /\ storage = Stored(<<FileW, FileX, FileY>>)

\* C12: right after a step that is a valid move(from, to), the stored order
\* is the array of the paths of the playlist in its new order.
C12_MoveIsPersisted ==
    [][(MoveStep /\ ValidMove(lastOp'.from, lastOp'.to, Len(tracks)))
          => /\ lastOp'.saved
             /\ storage'.kind = "array"
             /\ Len(storage'.order) = Len(tracks')
             /\ \A i \in 1..Len(tracks') :
                   IsTrack(tracks'[i]) /\ storage'.order[i] = tracks'[i].path]_vars

\* a step of the play button's handler
PlayStep == lastOp'.op = "play" /\ crawls' = crawls

\* C13: a play() step on an empty playlist shows the no-tracks status and
\* leaves the playlist, currentIndex, the stopped flag, the player's source
\* and the stored order as they were; a Stopped player is Stopped after it.
C13_PlayOnEmptyChangesNothing ==
    [][(PlayStep /\ Len(tracks) = 0)
          => /\ status' = "no-tracks"
             /\ UNCHANGED <<tracks, currentIndex, isStopped, src, storage>>
             /\ isStopped => isStopped'
             /\ ~lastOp'.played]_vars

\* play() when the crawl found nothing: Stopped, nothing loaded
C13_Witness ==
    /\ lastOp.op = "play"
    /\ tracks = <<>>
    /\ status = "no-tracks"
    /\ isStopped
    /\ currentIndex = -1

\* a step of the player's ended listener
EndedStep == lastOp'.op = "ended" /\ crawls' = crawls

\* C14: an ended step on a non-empty playlist sets currentIndex to
\* (currentIndex + 1) mod length, leaves the stopped flag as it was, and
\* calls play() on the new track exactly when the stopped flag is false.
C14_EndedAdvancesAndAutoplays ==
    [][(EndedStep /\ Len(tracks) > 0)
          => /\ currentIndex' = (currentIndex + 1) % Len(tracks)
             /\ isStopped' = isStopped
             /\ lastOp'.played <=> ~isStopped]_vars

\* C15: a play() step on a non-empty playlist ends with the stopped flag
\* false and currentIndex a valid index, the one before the step when that
\* was valid and 0 otherwise, and leaves the playlist as it was.
C15_PlayEndsPlaying ==
    [][(PlayStep /\ Len(tracks) > 0)
          => /\ ~isStopped'
             /\ ValidIndex(currentIndex', tracks')
             /\ currentIndex' = (IF ValidIndex(currentIndex, tracks) THEN currentIndex ELSE 0)
             /\ tracks' = tracks]_vars

\* play() on a loaded playlist with no current track: the top is played
C15_Witness ==
    /\ lastOp.op = "play"
    /\ lastOp.played
    /\ Len(tracks) = 3
    /\ currentIndex = 0
    /\ ~isStopped
    /\ src = <<tracks[1].path>>

\* C16: the displayed rows are those of the playlist as it is, and right
\* after the Play button of a row the stopped flag is false, play() was
\* called and currentIndex is the row's index, a valid index of the playlist.
C16_RowSelectionPlaysThatRow ==
    /\ rows = RowsBuilt(tracks)
    /\ rows <= Len(tracks)
    /\ lastOp.op = "select"
          => /\ ~isStopped
             /\ lastOp.played
             /\ currentIndex = lastOp.to
             /\ ValidIndex(currentIndex, tracks)
             /\ src = <<tracks[currentIndex + 1].path>>

\* the last row of a three-track playlist selected
C16_Witness ==
    /\ lastOp.op = "select"
    /\ lastOp.to = 2
    /\ Len(tracks) = 3
    /\ currentIndex = 2
    /\ ~isStopped

\* the pathnames the listings link to on origin o
LinkedOn(o) ==
    UNION {UNION {{[dirs |-> site[k][i].url.dirs, file |-> site[k][i].url.file] :
                     i \in {j \in 1..Len(site[k]) : site[k][j].url.origin = o}} :
                  k \in DOMAIN site} : site \in Sites}

\* pathname d/f is the audio root or below it
UnderRoot(d) == IsPrefix(audioRootUrl.dirs, d)

\* a fetched directory: the root, or below it and linked on the page's origin
FetchedOk(key) ==
    /\ UnderRoot(key.dirs)
    /\ key.file = <<>>
    /\ key = RootKey \/ [dirs |-> key.dirs, file |-> <<>>] \in LinkedOn(LocationOrigin)

\* a found path: a file below the root that is linked on the page's origin
FoundOk(path) ==
    /\ path.dirs # <<>>
    /\ path.dirs[1] = "audio"
    /\ UnderRoot(LocationDirs \o path.dirs)
    /\ [dirs |-> LocationDirs \o path.dirs, file |-> path.file] \in LinkedOn(LocationOrigin)

\* C17: every directory a crawl has fetched, every path in a found array of
\* a crawl in flight or in the array a crawl returned, and every path of the
\* playlist is below the audio root and linked on the page's own origin.
C17_CrawlStaysInsideRoot ==
    /\ \A c \in 1..Len(crawls) :
          /\ \A i \in 1..Len(crawls[c].log) : FetchedOk(crawls[c].log[i])
          /\ \A f \in 1..Len(crawls[c].stack) :
                \A i \in 1..Len(crawls[c].stack[f].found) : FoundOk(crawls[c].stack[f].found[i])
    /\ \A i \in 1..Len(lastOp.log) : FetchedOk(lastOp.log[i])
    /\ \A i \in 1..Len(lastOp.found) : FoundOk(lastOp.found[i])
    /\ \A i \in 1..Len(tracks) : IsTrack(tracks[i]) => FoundOk(tracks[i].path)

\* the crawl of the listings with the parent link, the file outside the
\* root and the links to another origin has ended and loaded the playlist
C17_Witness ==
    /\ lastOp.op = "refresh"
    /\ server = SiteFull
    /\ lastOp.log = <<RootKey, SubKey>>
    /\ status = "loaded"
    /\ Len(tracks) = 3

\* C18: in a player that is playing a non-empty playlist and is left to the
\* ended listener, every index of the playlist is currentIndex again and
\* again, and the stopped flag stays false.
C18_PlaylistLoops ==
    /\ \A i \in 0..(MaxTracks - 1) : []<>(i >= Len(tracks) \/ currentIndex = i)
    /\ [](~isStopped)

\* the end of the last of three tracks has wrapped to the first
C18_Witness ==
    /\ lastOp.op = "ended"
    /\ lastOp.played
    /\ Len(tracks) = 3
    /\ currentIndex = 0
    /\ ~isStopped

\* the paths of the tracks of trk, in order, its undefined elements left out
DefinedPaths(trk) == PathsOf(SelectSeq(trk, IsTrack))

\* the last handler that ran was a valid move: its indices differ and were
\* indices of the playlist it was applied to
AfterValidMove ==
    /\ lastOp.op = "move"
    /\ ~ReorderIgnores(lastOp.from, lastOp.to)
    /\ lastOp.inRange

C20_SourceIsCurrentTrack ==
    (~isStopped /\ ValidIndex(currentIndex, tracks) /\ IsTrack(tracks[currentIndex + 1]))
        => src = <<tracks[currentIndex + 1].path>>

====
